---------------------------- MODULE Spec2Model ----------------------------
(***************************************************************************)
(* Model of the multi-agent documentation generator (src/main.py and the   *)
(* agents under src/agents/).                                              *)
(*                                                                         *)
(* Text is modelled as a sequence of one-character strings, so that        *)
(* lower-casing, substring search and the repository pattern are computed  *)
(* character by character, as the Python code computes them.               *)
(*                                                                         *)
(* The chat/UI layer (cl.Message(...).send()) is an external collaborator  *)
(* and is taken not to fail; every other external call (MCP server, LLM,   *)
(* file system) may return or raise, chosen nondeterministically.          *)
(***************************************************************************)
EXTENDS Integers, Sequences, FiniteSets, TLC

VARIABLES
    pc,         \* position of the message handler / the graph
    state,      \* the AgentState record threaded through the graph
    trace,      \* history: the graph nodes executed in this run, in order
    lastPatch,  \* history: the patch the last executed node returned
    errors,     \* history: the non-empty error texts recorded, in order
    ui,         \* history: what the handler and the report node sent to the UI
    calls,      \* history: the component invocations of this run, in order
    handed,     \* history: the documentation handed to the Bundler
    input,      \* argument of the function under test (function specifications)
    output,     \* its result
    clock,      \* the wall clock datetime.now() reads, in ticks
    disk,       \* the files below the output root
    archives,   \* the zip archives next to the timestamp directories
    bundles,    \* history: one record per bundle_documentation call
    cooperative \* history: every external service answered well so far

fsVars == <<clock, disk, archives, bundles>>

vars == <<pc, state, trace, lastPatch, errors, ui, calls, handed, input, output,
          clock, disk, archives, bundles, cooperative>>

-----------------------------------------------------------------------------
(* Text helpers: str.lower(), `w in s`.                                    *)

Uppers == <<"A","B","C","D","E","F","G","H","I","J","K","L","M",
            "N","O","P","Q","R","S","T","U","V","W","X","Y","Z">>

Lowers == <<"a","b","c","d","e","f","g","h","i","j","k","l","m",
            "n","o","p","q","r","s","t","u","v","w","x","y","z">>

Digits == {"0","1","2","3","4","5","6","7","8","9"}

Range(f) == {f[i] : i \in DOMAIN f}

LowerChar(c) ==
    IF c \in Range(Uppers)
    THEN Lowers[CHOOSE i \in DOMAIN Uppers : Uppers[i] = c]
    ELSE c

Lower(s) == [i \in 1..Len(s) |-> LowerChar(s[i])]

\* Python's `w in s` for strings.
Contains(s, w) ==
    \E i \in 1..(Len(s) - Len(w) + 1) : SubSeq(s, i, i + Len(w) - 1) = w

StartsWithAt(s, i, w) ==
    /\ i + Len(w) - 1 <= Len(s)
    /\ SubSeq(s, i, i + Len(w) - 1) = w

WFunction == <<"f","u","n","c","t","i","o","n">>
WApi == <<"a","p","i">>
WFunc == <<"f","u","n","c">>
WReadme == <<"r","e","a","d","m","e">>
WFunctionApi == <<"f","u","n","c","t","i","o","n","_","a","p","i">>
WRepository == <<"r","e","p","o","s","i","t","o","r","y">>
WRepo == <<"r","e","p","o">>

\* All sequences over S of length at most n.
StringsUpTo(S, n) == UNION {[1..k -> S] : k \in 0..n}

-----------------------------------------------------------------------------
(* route_documentation_type: the conditional edge after context_enrichment *)

\* state.get("doc_type", "readme"): a missing key reads as "readme".
GetDocType(st) == IF st.has_doc_type THEN st.doc_type ELSE WReadme

\* A router that forgets .lower().
RouteNoLower(st) ==
    LET doc_type == GetDocType(st)
    IN  IF \/ Contains(doc_type, WFunction)
           \/ Contains(doc_type, WApi)
           \/ Contains(doc_type, WFunc)
        THEN "function_doc"
        ELSE "readme_doc"

RouteDocumentationType(st) ==
    LET doc_type == Lower(GetDocType(st))
    IN  IF \/ Contains(doc_type, WFunction)
           \/ Contains(doc_type, WApi)
           \/ Contains(doc_type, WFunc)
        THEN "function_doc"
        ELSE "readme_doc"


-----------------------------------------------------------------------------
(* main(): parsing of the user message (src/main.py, on_message handler)   *)

\* The character class [a-zA-Z0-9_-] of repo_pattern.
IsWordChar(c) == c \in Range(Lowers) \cup Range(Uppers) \cup Digits \cup {"_", "-"}

\* The character class \s.
IsSpace(c) == c \in {" ", "\t", "\n"}

RECURSIVE WordRunEnd(_, _)
\* The index after the longest run of word characters of s starting at j.
WordRunEnd(s, j) ==
    IF j <= Len(s) /\ IsWordChar(s[j]) THEN WordRunEnd(s, j + 1) ELSE j

RECURSIVE SpaceRunEnd(_, _)
SpaceRunEnd(s, j) ==
    IF j <= Len(s) /\ IsSpace(s[j]) THEN SpaceRunEnd(s, j + 1) ELSE j

\* ([a-zA-Z0-9_-]+/[a-zA-Z0-9_-]+) matched at j. Both runs are greedy, and
\* a shorter first run cannot be followed by "/", so the match is unique.
GroupAt(s, j) ==
    LET e1 == WordRunEnd(s, j)
        e2 == WordRunEnd(s, e1 + 1)
    IN  [ok    |-> e1 > j /\ e1 <= Len(s) /\ s[e1] = "/" /\ e2 > e1 + 1,
         owner |-> SubSeq(s, j, e1 - 1),
         repo  |-> SubSeq(s, e1 + 1, e2 - 1)]

\* (?:repository|repo)?\s* matched at i with prefix p, then the group.
GroupAfter(s, i, p) ==
    IF StartsWithAt(s, i, p)
    THEN GroupAt(s, SpaceRunEnd(s, i + Len(p)))
    ELSE [ok |-> FALSE, owner |-> <<>>, repo |-> <<>>]

\* The regex engine tries "repository", then "repo", then no prefix.
MatchAt(s, i) ==
    IF GroupAfter(s, i, WRepository).ok THEN GroupAfter(s, i, WRepository)
    ELSE IF GroupAfter(s, i, WRepo).ok THEN GroupAfter(s, i, WRepo)
    ELSE GroupAfter(s, i, <<>>)

\* A pattern that accepts a bare name, without "/".
RepoSearchNoSlash(s) ==
    IF \E i \in 1..Len(s) : IsWordChar(s[i])
    THEN LET i == CHOOSE k \in 1..Len(s) : IsWordChar(s[k])
         IN  [ok |-> TRUE, owner |-> SubSeq(s, i, WordRunEnd(s, i) - 1), repo |-> <<>>]
    ELSE [ok |-> FALSE, owner |-> <<>>, repo |-> <<>>]

\* re.search(repo_pattern, user_input): the leftmost match.
RepoSearch(s) ==
    IF \E i \in 1..Len(s) : MatchAt(s, i).ok
    THEN MatchAt(s, CHOOSE i \in 1..Len(s) :
                        /\ MatchAt(s, i).ok
                        /\ \A k \in 1..(i - 1) : ~MatchAt(s, k).ok)
    ELSE [ok |-> FALSE, owner |-> <<>>, repo |-> <<>>]

\* doc_type = "function_api" if any keyword occurs in the lower-cased message.
ParseDocType(content) ==
    LET user_input == Lower(content)
    IN  IF \E word \in {WFunction, WApi, WFunc} : Contains(user_input, word)
        THEN WFunctionApi
        ELSE WReadme

-----------------------------------------------------------------------------
(* Values of the AgentState fields                                         *)

Absent == "ABSENT"      \* a key a dict does not have
Empty == "EMPTY"        \* the empty dict {} of initial_state and of the except patches

\* A documentation text: which drafter wrote it, and in which of the run's
\* drafter invocations (the text itself is opaque to the code).
NoText == [by |-> "none", gen |-> 0]

\* documentation: {} or the dict doc_conversion returns.
\* Its code_analysis and context_data are only forwarded to the validation
\* LLM and are there exactly when documentation is; they are left out.
EmptyDraft ==
    [status |-> Absent, documentation |-> NoText, error |-> Absent]

\* The validator's reply, or the absence of one.
NoValidation ==
    [kind |-> Absent, is_valid |-> Absent, suggestions |-> Absent,
     validation_score |-> Absent, issues |-> Absent, error |-> Absent]

\* validation_result: {} or the dict validate_and_process returns.
EmptyVP ==
    [status |-> Absent, documentation |-> NoText, validation_result |-> NoValidation,
     ready_for_bundling |-> Absent, error |-> Absent]

\* bundle_result: {} or the dict bundle_documentation returns.
EmptyBundle ==
    [status |-> Absent,
     base_directory |-> [root |-> Absent, stamp |-> 0, sub |-> "", name |-> "", ext |-> ""],
     has_generated_files |-> FALSE, generated_files |-> <<>>,
     zip_file |-> [root |-> Absent, stamp |-> 0, sub |-> "", name |-> "", ext |-> ""],
     error |-> Absent]

NoRepo == [owner |-> <<>>, repo |-> <<>>]

\* initial_state of main().
InitialState(content, repository_info, doc_type) ==
    [messages          |-> <<content>>,
     user_input        |-> content,
     repository_info   |-> repository_info,
     has_doc_type      |-> TRUE,
     doc_type          |-> doc_type,
     mcp_response      |-> Empty,
     code_analysis     |-> Empty,
     context_data      |-> "",
     documentation     |-> EmptyDraft,
     validation_result |-> EmptyVP,
     bundle_result     |-> EmptyBundle,
     error             |-> ""]

\* Before any message is handled there is no Pipeline Record.
NoState == InitialState(<<>>, NoRepo, <<>>)

\* LangGraph's merge of a node's patch: last write wins per field.
\* messages is declared Annotated[list, operator.add]: a patch's messages are
\* appended; every other field is overwritten.
Merge(st, patch) ==
    [k \in DOMAIN st |->
        IF k \notin DOMAIN patch THEN st[k]
        ELSE IF k = "messages" THEN st[k] \o patch[k]
        ELSE patch[k]]


-----------------------------------------------------------------------------
(* The components the stages call. Each takes, besides its arguments, the  *)
(* outcomes of the external calls it makes, and returns                    *)
(*   raised : whether the call raised instead of returning,                *)
(*   value  : what it returned (or the exception text),                    *)
(*   calls  : the component invocations it made, in order.                 *)

Returned(v, c) == [raised |-> FALSE, value |-> v, calls |-> c]
Raised(text, c) == [raised |-> TRUE, value |-> text, calls |-> c]

\* mcp_connection_from_server(): the agent's transcript, a transcript
\* without a "messages" key, or an exception; or, for the call through
\* asyncio.run, a host whose running event loop makes asyncio.run refuse.
McpOutcomes == {"response", "no_messages", "raise", "running_loop"}

\* The extraction LLM's reply: a JSON array, another JSON value, text that
\* is not JSON, or an exception of the call.
ParserReplies == {"json_list", "json_object", "not_json", "llm_raise"}

\* code_parser_work(). asyncio.run(mcp_connection_from_server()) stands
\* before the try block: an exception of the connection, or of asyncio.run
\* itself when the host's event loop is not re-entrant, leaves the function.
\* Inside the try, whatever json.loads returns is returned as it is.
CodeParserWork(mcp, reply) ==
    LET c == <<"code_parser_work">>
    IN  IF mcp = "running_loop" THEN Raised("RuntimeError: running event loop", c)
        ELSE IF mcp = "raise" THEN Raised("mcp_connection_error", c)
        ELSE IF mcp = "no_messages" THEN Returned("access_failure", c)
        ELSE IF reply = "llm_raise" THEN Returned("unexpected_error", c)
        ELSE IF reply = "not_json" THEN Returned("parse_failure", c)
        ELSE IF reply = "json_list" THEN Returned("elements", c)
        ELSE Returned("json_object", c)

\* The dicts code_parser_work returns that have an "error" key.
ParserErrorObjects == {"access_failure", "parse_failure", "unexpected_error"}

\* Every result of code_parser_work.
ParserResults == {CodeParserWork(m, r) : m \in McpOutcomes, r \in ParserReplies}

\* The text context_preparation() returns: a JSON object, another JSON
\* value, text that is not JSON; or it raises (tool loop, transcript index).
ContextOutcomes == {"json_object", "json_other", "not_json", "raise"}

ContextPreparation(outcome) ==
    LET c == <<"context_preparation">>
    IN  IF outcome = "raise" THEN Raised("context_error", c)
        ELSE Returned(outcome, c)

\* The drafting LLM: a markdown text, or an exception.
DraftReplies == {"markdown", "llm_raise"}

DraftError(text) ==
    [status |-> "error", documentation |-> NoText, error |-> text]

\* The body shared by both drafters: extractor, collector, json.loads of the
\* context, LLM. Every exception is caught and becomes status "error".
Draft(producer, gen, parsed, ctx, reply) ==
    LET context == ContextPreparation(ctx)
    IN  IF parsed.raised
        THEN Returned(DraftError(parsed.value), parsed.calls)
        ELSE IF context.raised
        THEN Returned(DraftError(context.value), parsed.calls \o context.calls)
        ELSE IF context.value = "not_json"
        THEN Returned(DraftError("json_decode_error"), parsed.calls \o context.calls)
        ELSE IF reply = "llm_raise"
        THEN Returned(DraftError("llm_error"), parsed.calls \o context.calls)
        ELSE Returned([status        |-> "success",
                       documentation |-> [by |-> producer, gen |-> gen],
                       error         |-> Absent],
                      parsed.calls \o context.calls)

\* doc_conv_func_doc.doc_conversion: the function/API drafter.
FuncDocConversion(gen, parsed, ctx, reply) ==
    LET r == Draft("function_api", gen, parsed, ctx, reply)
    IN  [r EXCEPT !.calls = <<"func_doc_conversion">> \o @]

\* document_conversion.doc_conversion: the general drafter, of the same shape.
DocConversion(gen, parsed, ctx, reply) ==
    LET r == Draft("general", gen, parsed, ctx, reply)
    IN  [r EXCEPT !.calls = <<"doc_conversion">> \o @]


-----------------------------------------------------------------------------
(* verification.py: DocumentationValidator and validate_and_process        *)

\* What json.loads makes of the validation LLM's reply when it is a JSON
\* object: each key of the rubric may be there or not, and its value may
\* have the expected type or another one.
ValidatorDicts ==
    {[kind |-> "dict", is_valid |-> v, suggestions |-> s,
      validation_score |-> sc, issues |-> i, error |-> Absent] :
        v \in {Absent, "true", "false"}, s \in {Absent, "list"},
        sc \in {"0.8", "not_number"}, i \in {"list", "not_sized"}}

\* A reply that is valid JSON but not an object.
ValidatorNonDict == [NoValidation EXCEPT !.kind = "nondict"]

\* The LLM call raised, or its reply was not JSON.
ValidatorRaise == [NoValidation EXCEPT !.kind = "raise"]

ValidatorReplies == ValidatorDicts \cup {ValidatorNonDict, ValidatorRaise}

\* The dict validate_documentation returns from its except branch.
FallbackValidation ==
    [kind |-> "dict", is_valid |-> "false", suggestions |-> Absent,
     validation_score |-> "0", issues |-> "failed_to_perform_validation",
     error |-> "validator_error"]

\* DocumentationValidator.validate_documentation: the parsed reply verbatim,
\* or the fallback dict; it never raises.
ValidateDocumentation(reply) ==
    Returned(IF reply.kind = "raise" THEN FallbackValidation ELSE reply,
             <<"validate_documentation">>)

\* The improvement LLM's reply parsed by json.loads, or a failure of either.
ImproveReplies == {"json", "fail"}

FeedbackError(text) ==
    [status |-> "error", updated_documentation |-> NoText,
     validation_result |-> NoValidation, error |-> text]

\* DocumentationValidator.process_user_feedback. The drafter it calls is the
\* doc_conversion verification.py imports from document_conversion.
ProcessUserFeedback(gen, env) ==
    LET c0 == <<"process_user_feedback", "llm_improve">>
        new_doc == DocConversion(gen, env.parsed, env.ctx, env.draft)
        again == ValidateDocumentation(env.second)
    IN  IF env.improve = "fail"
        THEN Returned(FeedbackError("improve_error"), c0)
        ELSE IF new_doc.value.status # "success"
        THEN Returned(FeedbackError("KeyError: documentation"), c0 \o new_doc.calls)
        ELSE Returned([status                |-> "success",
                       updated_documentation |-> new_doc.value.documentation,
                       validation_result     |-> again.value,
                       error                 |-> Absent],
                      c0 \o new_doc.calls \o again.calls)

\* user_feedback: None, the empty string, or a text.
NoFeedback == "NONE"
Feedbacks == {NoFeedback, "", "add examples"}

\* Python truthiness of user_feedback.
Truthy(user_feedback) == user_feedback \notin {NoFeedback, ""}

VPError(text) ==
    [status |-> "error", documentation |-> NoText, validation_result |-> NoValidation,
     ready_for_bundling |-> Absent, error |-> text]

\* What validate_and_process hands back: the call's outcome, the feedback
\* argument it passed to process_user_feedback, if it called it, and what
\* the first validation returned, if it ran.
VPReturn(v, c, fb, first) ==
    [raised |-> FALSE, value |-> v, calls |-> c, feedback_arg |-> fb,
     first_validation |-> first]

\* validate_and_process(repository_info, documentation_result, user_prompt,
\* user_feedback); repository_info and user_prompt only reach the external
\* calls. gen numbers the drafter invocation a regeneration would be.
ValidateAndProcess(documentation_result, user_feedback, gen, env) ==
    LET first == ValidateDocumentation(env.first)
        v == first.value
        improved == ProcessUserFeedback(gen, env)
        fb == IF Truthy(user_feedback) THEN user_feedback ELSE "json(suggestions)"
    IN  IF env.ctor = "raise"
        THEN [raised |-> TRUE, value |-> VPError("validator_init_error"),
              calls |-> <<>>, feedback_arg |-> Absent, first_validation |-> NoValidation]
        ELSE IF documentation_result.status # "success"
        THEN VPReturn(VPError("KeyError: documentation"), <<>>, Absent, NoValidation)
        ELSE IF v.kind # "dict"
        THEN VPReturn(VPError("TypeError: is_valid"), first.calls, Absent, v)
        ELSE IF v.is_valid = Absent
        THEN VPReturn(VPError("KeyError: is_valid"), first.calls, Absent, v)
        ELSE IF v.is_valid = "false" \/ Truthy(user_feedback)
        THEN IF ~Truthy(user_feedback) /\ v.suggestions = Absent
             THEN VPReturn(VPError("KeyError: suggestions"), first.calls, Absent, v)
             ELSE IF improved.value.status # "success"
             THEN VPReturn(VPError("KeyError: updated_documentation"),
                           first.calls \o improved.calls, fb, v)
             ELSE VPReturn([status             |-> "updated",
                            documentation      |-> improved.value.updated_documentation,
                            validation_result  |-> improved.value.validation_result,
                            ready_for_bundling |-> Absent,
                            error              |-> Absent],
                           first.calls \o improved.calls, fb, v)
        ELSE VPReturn([status             |-> "validated",
                       documentation      |-> documentation_result.documentation,
                       validation_result  |-> v,
                       ready_for_bundling |-> "true",
                       error              |-> Absent],
                      first.calls, Absent, v)

Count(seq, x) == Cardinality({i \in DOMAIN seq : seq[i] = x})

\* The outcomes of the external calls that a validate_and_process call did
\* not make; they are never consumed.
Unused ==
    [improve |-> "fail", parsed |-> Raised("unused", <<>>), ctx |-> "raise",
     draft |-> "llm_raise", second |-> ValidatorRaise]

\* Every result of validate_and_process on these arguments. The environment
\* supplies an outcome for each external call the function makes: for the
\* improvement reply and the regeneration only if process_user_feedback is
\* called, for the second validation only if it is reached.
VPOutcomes(documentation_result, user_feedback, gen) ==
    UNION {
        LET env1 == [ctor |-> c, first |-> f, improve |-> Unused.improve,
                     parsed |-> Unused.parsed, ctx |-> Unused.ctx,
                     draft |-> Unused.draft, second |-> Unused.second]
            r1 == ValidateAndProcess(documentation_result, user_feedback, gen, env1)
        IN  IF Count(r1.calls, "process_user_feedback") = 0
            THEN {r1}
            ELSE UNION {
                LET env2 == [env1 EXCEPT !.improve = i, !.parsed = p, !.ctx = x, !.draft = d]
                    r2 == ValidateAndProcess(documentation_result, user_feedback, gen, env2)
                IN  IF Count(r2.calls, "validate_documentation") < 2
                    THEN {r2}
                    ELSE {ValidateAndProcess(documentation_result, user_feedback, gen,
                                             [env2 EXCEPT !.second = s2]) :
                              s2 \in ValidatorReplies}
                : i \in ImproveReplies, p \in ParserResults,
                  x \in ContextOutcomes, d \in DraftReplies}
        : c \in {"ok", "raise"}, f \in ValidatorReplies}

-----------------------------------------------------------------------------
(* file_bundler.py: DocumentationBundler and bundle_documentation          *)

\* A path below the output root: the timestamp directory, the sub-directory,
\* the file name and the extension; NoPath where a dict has no path.
PathOf(stamp, sub, name, ext) ==
    [root |-> "docs_output", stamp |-> stamp, sub |-> sub, name |-> name, ext |-> ext]

NoPath == [root |-> Absent, stamp |-> 0, sub |-> "", name |-> "", ext |-> ""]

Entry(file_name, content) == [file_name |-> file_name, content |-> content]

\* What json.loads makes of the split LLM's reply when it is a JSON object
\* with the two lists: no entry, a function and a class, two functions with
\* the same file_name, a function whose content is empty.
SplitDicts ==
    {[kind |-> "dict", functions |-> <<>>, classes |-> <<>>, error |-> Absent],
     [kind |-> "dict", functions |-> <<Entry("parse", "text")>>,
      classes |-> <<Entry("bundler", "text")>>, error |-> Absent],
     [kind |-> "dict", functions |-> <<Entry("parse", "text"), Entry("parse", "more")>>,
      classes |-> <<>>, error |-> Absent],
     [kind |-> "dict", functions |-> <<Entry("parse", "")>>,
      classes |-> <<>>, error |-> Absent]}

\* A reply that is valid JSON but not an object.
SplitNonDict == [kind |-> "nondict", functions |-> <<>>, classes |-> <<>>, error |-> Absent]

\* The LLM call raised, or its reply was not JSON.
SplitRaise == [kind |-> "raise", functions |-> <<>>, classes |-> <<>>, error |-> Absent]

SplitReplies == SplitDicts \cup {SplitNonDict, SplitRaise}

\* The split step was not reached.
NoSplit == [kind |-> "none", functions |-> <<>>, classes |-> <<>>, error |-> Absent]

\* A separate_documentation that lets the failure through.
SeparateDocumentationRaises(reply) == reply

\* DocumentationBundler.separate_documentation: the parsed reply verbatim,
\* or an empty split with an embedded error; it never raises.
SeparateDocumentation(reply) ==
    IF reply.kind = "raise"
    THEN [kind |-> "dict", functions |-> <<>>, classes |-> <<>>,
          error |-> "Failed to separate documentation"]
    ELSE reply

BundleError(text) ==
    [status |-> "error", base_directory |-> NoPath, has_generated_files |-> FALSE,
     generated_files |-> <<>>, zip_file |-> NoPath, error |-> text]

\* The clock is read in ticks; strftime("%Y%m%d_%H%M%S") keeps whole seconds.
TicksPerSecond == 2

\* A timestamp that keeps whole minutes only.
TimestampMinutes(now) == now \div (TicksPerSecond * 60)

\* datetime.now().strftime("%Y%m%d_%H%M%S")
Timestamp(now) == now \div TicksPerSecond

\* DocumentationBundler._create_output_directories: base_dir is
\* output_dir/timestamp; mkdir(parents=True, exist_ok=True) accepts a
\* directory that is already there, and may raise (permissions, disk).
CreateOutputDirectories(now, mkdir) ==
    LET base_dir == PathOf(Timestamp(now), "", "", "")
    IN  IF mkdir = "raise"
        THEN Raised("mkdir_error", <<>>)
        ELSE Returned([base_dir      |-> base_dir,
                       functions_dir |-> [base_dir EXCEPT !.sub = "functions"],
                       classes_dir   |-> [base_dir EXCEPT !.sub = "classes"]], <<>>)

\* file_path = dir / f"{entry['file_name']}.md"
Path(dir, entry) == [dir EXCEPT !.name = entry.file_name, !.ext = ".md"]

\* open(file_path, 'w') and f.write(content): the file at that path now has
\* this content, whatever it had before. `by` is history: the call writing.
WriteFile(files, path, content, by) ==
    {f \in files : f.path # path}
        \cup {[path |-> path, content |-> content, by |-> by]}

\* The first n items written in order.
RECURSIVE WriteFirst(_, _, _, _)
WriteFirst(files, items, n, by) ==
    IF n = 0 THEN files
    ELSE WriteFile(WriteFirst(files, items, n - 1, by),
                   items[n].path, items[n].content, by)

\* The split entries in the order they are written, each with its path.
Items(separated_docs, functions_dir, classes_dir) ==
    [i \in 1..Len(separated_docs.functions) |->
        [path    |-> Path(functions_dir, separated_docs.functions[i]),
         content |-> separated_docs.functions[i].content]]
    \o [i \in 1..Len(separated_docs.classes) |->
        [path    |-> Path(classes_dir, separated_docs.classes[i]),
         content |-> separated_docs.classes[i].content]]

\* A generate_markdown_files that returns the paths written before the
\* failing entry.
GenerateMarkdownFilesPartial(separated_docs, functions_dir, classes_dir, fail_at, files, by) ==
    LET items == Items(separated_docs, functions_dir, classes_dir)
        n == IF fail_at \in 1..Len(items) THEN fail_at - 1 ELSE Len(items)
    IN  IF separated_docs.kind # "dict"
        THEN [raised |-> TRUE, value |-> <<>>, files |-> files, wrote |-> 0]
        ELSE [raised |-> FALSE, value |-> [i \in 1..n |-> items[i].path],
              files |-> WriteFirst(files, items, n, by), wrote |-> n]

\* DocumentationBundler.generate_markdown_files: writes one file per entry,
\* the functions first, and returns the list of their paths. fail_at is the
\* entry at which an exception occurs (0: none): the entries before it are
\* on disk, and the exception is raised again as a generic one. A split
\* result that is no dict has no .get and raises before anything is written.
GenerateMarkdownFiles(separated_docs, functions_dir, classes_dir, fail_at, files, by) ==
    LET items == Items(separated_docs, functions_dir, classes_dir)
    IN  IF separated_docs.kind # "dict"
        THEN [raised |-> TRUE, value |-> <<>>, files |-> files, wrote |-> 0]
        ELSE IF fail_at \in 1..Len(items)
        THEN [raised |-> TRUE, value |-> <<>>,
              files |-> WriteFirst(files, items, fail_at - 1, by),
              wrote |-> fail_at - 1]
        ELSE [raised |-> FALSE, value |-> [i \in 1..Len(items) |-> items[i].path],
              files |-> WriteFirst(files, items, Len(items), by),
              wrote |-> Len(items)]

\* The files below a timestamp directory.
Tree(files, base_dir) ==
    {f \in files : f.path.root = base_dir.root /\ f.path.stamp = base_dir.stamp}

\* A create_zip_bundle that puts the archive inside the directory.
CreateZipBundleInside(base_dir, generated_files, zip, files, zips, by) ==
    LET zip_path == [base_dir EXCEPT !.name = "bundle", !.ext = ".zip"]
    IN  IF zip = "raise"
        THEN [raised |-> TRUE, value |-> NoPath, zips |-> zips]
        ELSE [raised |-> FALSE, value |-> zip_path,
              zips |-> {a \in zips : a.path # zip_path}
                         \cup {[path |-> zip_path, members |-> Tree(files, base_dir),
                                by |-> by]}]

\* DocumentationBundler.create_zip_bundle: shutil.make_archive(base_dir,
\* 'zip', base_dir) writes base_dir + ".zip" with everything that is below
\* base_dir at that moment, replacing an archive of that name;
\* generated_files is not used.
CreateZipBundle(base_dir, generated_files, zip, files, zips, by) ==
    LET zip_path == [base_dir EXCEPT !.ext = ".zip"]
    IN  IF zip = "raise"
        THEN [raised |-> TRUE, value |-> NoPath, zips |-> zips]
        ELSE [raised |-> FALSE, value |-> zip_path,
              zips |-> {a \in zips : a.path # zip_path}
                         \cup {[path |-> zip_path, members |-> Tree(files, base_dir),
                                by |-> by]}]

\* What one bundle_documentation call leaves behind: its result, the file
\* system after it, and the record of what it did (history).
Bundled(value, files, zips, record) ==
    [raised |-> FALSE, value |-> value, calls |-> <<"bundle_documentation">>,
     files |-> files, zips |-> zips, record |-> [record EXCEPT !.result = value]]

\* bundle_documentation(documentation_result, output_dir, user_confirmation)
\* called at clock reading `now` on the file system (files, zips). The
\* documentation only reaches the split LLM. Everything, the bundler's
\* construction included, is inside the try block.
BundleDocumentation(user_confirmation, env, now, files, zips, by) ==
    LET dirs == CreateOutputDirectories(now, env.mkdir)
        base_dir == dirs.value.base_dir
        separated_docs == SeparateDocumentation(env.split)
        generated_files ==
            GenerateMarkdownFiles(separated_docs, dirs.value.functions_dir,
                                  dirs.value.classes_dir, env.fail_at, files, by)
        zip_path == CreateZipBundle(base_dir, generated_files.value, env.zip,
                                    generated_files.files, zips, by)
        result == [status |-> "generated", base_directory |-> base_dir,
                   has_generated_files |-> TRUE,
                   generated_files |-> generated_files.value,
                   zip_file |-> NoPath, error |-> Absent]
        record == [by |-> by, time |-> now, user_confirmation |-> user_confirmation,
                   directory |-> NoPath, separated_docs |-> NoSplit,
                   wrote |-> 0, write_failed |-> FALSE, archived |-> FALSE,
                   result |-> BundleError("")]
        made == [record EXCEPT !.directory = base_dir,
                               !.separated_docs = separated_docs,
                               !.wrote = generated_files.wrote,
                               !.write_failed =
                                   /\ separated_docs.kind = "dict"
                                   /\ env.fail_at \in 1..(Len(separated_docs.functions)
                                                           + Len(separated_docs.classes))]
    IN  IF dirs.raised
        THEN Bundled(BundleError(dirs.value), files, zips, record)
        ELSE IF generated_files.raised
        THEN Bundled(BundleError("Failed to generate markdown files"),
                     generated_files.files, zips, made)
        ELSE IF user_confirmation
        THEN Bundled(result, generated_files.files, zips, made)
        ELSE IF zip_path.raised
        THEN Bundled(BundleError("Failed to create zip bundle"),
                     generated_files.files, zips, made)
        ELSE Bundled([result EXCEPT !.status = "bundled", !.zip_file = zip_path.value],
                     generated_files.files, zip_path.zips,
                     [made EXCEPT !.archived = TRUE])

\* The outcomes of the external calls of one bundle_documentation call.
BundleEnvs ==
    {[mkdir |-> m, split |-> s, fail_at |-> k, zip |-> z] :
        m \in {"ok", "raise"}, s \in SplitReplies, k \in 0..2, z \in {"ok", "raise"}}

\* Every outcome of one bundle_documentation call.
BundleOutcomes(user_confirmation, now, files, zips, by) ==
    {BundleDocumentation(user_confirmation, env, now, files, zips, by) :
        env \in BundleEnvs}


-----------------------------------------------------------------------------
(* The graph nodes of src/main.py. Each returns the patch LangGraph merges *)
(* into the state, and the component invocations it made.                  *)

Node(patch, c) == [patch |-> patch, calls |-> c]

\* Agent 1: mcp_agent.
McpAgent(outcome) ==
    IF outcome = "raise"
    THEN Node([error |-> "mcp_connection_error", mcp_response |-> Empty],
              <<"mcp_connection_from_server">>)
    ELSE Node([mcp_response |-> outcome, error |-> ""],
              <<"mcp_connection_from_server">>)

\* Agent 2: parser_agent. A result with an "error" key is shown as a
\* warning and stored like any other result.
ParserAgent(code_analysis) ==
    IF code_analysis.raised
    THEN Node([error |-> code_analysis.value, code_analysis |-> Empty], code_analysis.calls)
    ELSE Node([code_analysis |-> code_analysis.value, error |-> ""], code_analysis.calls)

\* A context_agent that keeps the text it could not parse.
ContextAgentKeepsText(context_data) ==
    IF context_data.raised
    THEN Node([error |-> context_data.value, context_data |-> ""], context_data.calls)
    ELSE IF context_data.value = "not_json"
    THEN Node([error |-> "json_decode_error", context_data |-> context_data.value],
              context_data.calls)
    ELSE IF context_data.value # "json_object"
    THEN Node([error |-> "AttributeError: keys", context_data |-> ""], context_data.calls)
    ELSE Node([context_data |-> context_data.value, error |-> ""], context_data.calls)

\* Agent 3: context_agent. json.loads and .keys() on the returned text are
\* inside the try block.
ContextAgent(context_data) ==
    IF context_data.raised
    THEN Node([error |-> context_data.value, context_data |-> ""], context_data.calls)
    ELSE IF context_data.value = "not_json"
    THEN Node([error |-> "json_decode_error", context_data |-> ""], context_data.calls)
    ELSE IF context_data.value # "json_object"
    THEN Node([error |-> "AttributeError: keys", context_data |-> ""], context_data.calls)
    ELSE Node([context_data |-> context_data.value, error |-> ""], context_data.calls)

\* Agents 4a and 4b: readme_doc_agent and function_doc_agent have the same
\* body around their drafter; a status "error" draft is shown as a warning.
DocAgent(documentation) ==
    IF documentation.raised
    THEN Node([error |-> documentation.value, documentation |-> EmptyDraft],
              documentation.calls)
    ELSE Node([documentation |-> documentation.value, error |-> ""], documentation.calls)

\* Agent 5: verification_agent. The score is formatted with :.2f inside the
\* try block.
VerificationAgent(validation_result) ==
    LET val_result == validation_result.value.validation_result
    IN  IF validation_result.raised
        THEN Node([error |-> validation_result.value.error, validation_result |-> EmptyVP],
                  validation_result.calls)
        ELSE IF val_result.kind = "nondict"
        THEN Node([error |-> "AttributeError: get", validation_result |-> EmptyVP],
                  validation_result.calls)
        ELSE IF val_result.validation_score = "not_number"
        THEN Node([error |-> "format_error", validation_result |-> EmptyVP],
                  validation_result.calls)
        ELSE Node([validation_result |-> validation_result.value, error |-> ""],
                  validation_result.calls)

\* A bundler_agent that always takes the drafter's documentation.
DocToBundleDraft(st) ==
    IF st.documentation.status = "success"
    THEN st.documentation.documentation
    ELSE NoText

\* state["validation_result"].get("documentation",
\*     state["documentation"].get("documentation", {}))
DocToBundle(st) ==
    IF st.validation_result.status \in {"validated", "updated"}
    THEN st.validation_result.documentation
    ELSE IF st.documentation.status = "success"
    THEN st.documentation.documentation
    ELSE NoText

\* Agent 6: bundler_agent.
BundlerAgent(bundle_result) ==
    IF bundle_result.raised
    THEN Node([error |-> bundle_result.value.error, bundle_result |-> EmptyBundle],
              bundle_result.calls)
    ELSE Node([bundle_result |-> bundle_result.value, error |-> ""], bundle_result.calls)

\* What the report node (or the handler) sends to the UI.
Sent(kind, text, sections) ==
    [kind |-> kind, text |-> text, validation_section |-> sections,
     bundle_section |-> sections]

\* report_agent: the failure message when state["error"] is set, else the
\* summary. The summary's f-string formats the score with :.2f and takes
\* len(issues); nothing in report_agent catches an exception.
ReportAgent(st) ==
    LET validation == st.validation_result.validation_result
    IN  IF st.error # ""
        THEN [raised |-> FALSE, sent |-> Sent("process_failed", st.error, FALSE)]
        ELSE IF \/ validation.kind = "nondict"
                \/ validation.validation_score = "not_number"
                \/ validation.issues = "not_sized"
        THEN [raised |-> TRUE, sent |-> Sent("workflow_error", "TypeError", FALSE)]
        ELSE [raised |-> FALSE, sent |-> Sent("summary", "COMPLETE", TRUE)]

\* create_documentation_graph: the unconditional edges.
Edges ==
    [mcp_connection         |-> "code_parser",
     code_parser            |-> "context_enrichment",
     readme_documentation   |-> "verification",
     function_documentation |-> "verification",
     verification           |-> "file_bundler",
     file_bundler           |-> "final_report",
     final_report           |-> "END"]

EntryPoint == "mcp_connection"

\* A graph whose general drafter is followed by the function/API drafter.
NextNodeBothDrafters(node, st) ==
    IF node = "context_enrichment"
    THEN IF RouteDocumentationType(st) = "function_doc"
         THEN "function_documentation"
         ELSE "readme_documentation"
    ELSE IF node = "readme_documentation" THEN "function_documentation"
    ELSE Edges[node]

\* The node that runs after `node`, given the merged state.
NextNode(node, st) ==
    IF node = "context_enrichment"
    THEN IF RouteDocumentationType(st) = "function_doc"
         THEN "function_documentation"
         ELSE "readme_documentation"
    ELSE Edges[node]


-----------------------------------------------------------------------------
(* The message handler and one run of the graph                            *)

\* A message of the form the welcome text shows, for the repository
\* acme/widget: "Generate README documentation for repository acme/widget".
ExampleMessage ==
    <<"G","e","n","e","r","a","t","e"," ","R","E","A","D",
      "M","E"," ","d","o","c","u","m","e","n","t","a","t",
      "i","o","n"," ","f","o","r"," ","r","e","p","o","s",
      "i","t","o","r","y"," ","a","c","m","e","/","w","i",
      "d","g","e","t">>

\* Sample user messages: the example, "hello", "docs for a/", "a/b",
\* "FUNC Me/P".
SampleMessages ==
    { ExampleMessage,
      <<"h","e","l","l","o">>,
      <<"d","o","c","s"," ","f","o","r"," ","a","/">>,
      <<"a","/","b">>,
      <<"F","U","N","C"," ","M","e","/","P">> }

MaxMsgLen == 3
MsgChars == {"a", "/", " "}

\* The user messages tried: the samples and every short text.
Messages == SampleMessages \cup StringsUpTo(MsgChars, MaxMsgLen)

GraphNodes ==
    {"mcp_connection", "code_parser", "context_enrichment", "readme_documentation",
     "function_documentation", "verification", "file_bundler", "final_report"}

\* main(message): a message without a repository is answered with the usage
\* hint and nothing else happens; otherwise initial_state is built and the
\* graph is entered at its entry point.
HandleMessage ==
    /\ pc = "idle"
    /\ \E content \in Messages :
          LET user_input == Lower(content)
              doc_type == ParseDocType(content)
              repo_match == RepoSearch(user_input)
          IN  IF ~repo_match.ok
              THEN /\ pc' = "rejected"
                   /\ ui' = Append(ui, Sent("usage_hint", "username/repository", FALSE))
                   /\ state' = state
                   /\ input' = content
              ELSE /\ pc' = EntryPoint
                   /\ input' = content
                   /\ ui' = Append(ui, Sent("starting", "", FALSE))
                   /\ state' = InitialState(content,
                                            [owner |-> repo_match.owner,
                                             repo |-> repo_match.repo],
                                            doc_type)
    /\ UNCHANGED <<trace, lastPatch, errors, calls, handed, output>>
    /\ UNCHANGED <<fsVars, cooperative>>

\* One node of the graph ran and LangGraph merged its patch.
Step(node, result) ==
    /\ state' = Merge(state, result.patch)
    /\ trace' = Append(trace, node)
    /\ lastPatch' = result.patch
    /\ errors' = IF result.patch.error # "" THEN Append(errors, result.patch.error)
                 ELSE errors
    /\ calls' = calls \o result.calls
    /\ pc' = NextNode(node, state')
    /\ UNCHANGED <<input, output>>

\* The outcomes of a run's external calls when every service (MCP server,
\* LLM, file system) answers with a reply of the shape it was asked for.
\* Whether asyncio.run accepts the caller's running event loop is a
\* property of the host, not of a service.
GoodParserResults ==
    {CodeParserWork(m, "json_list") : m \in {"response", "running_loop"}}

GoodContext == "json_object"

GoodDraftEnv(p, x, d) ==
    p \in GoodParserResults /\ x = GoodContext /\ d = "markdown"

GoodValidatorReplies ==
    {v \in ValidatorDicts :
        /\ v.is_valid \in {"true", "false"}
        /\ v.suggestions = "list"
        /\ v.validation_score = "0.8"
        /\ v.issues = "list"}

GoodVPOutcomes(documentation_result, user_feedback, gen) ==
    {ValidateAndProcess(documentation_result, user_feedback, gen,
                        [ctor |-> "ok", first |-> f, improve |-> "json", parsed |-> p,
                         ctx |-> GoodContext, draft |-> "markdown", second |-> s2]) :
        f \in GoodValidatorReplies, p \in GoodParserResults,
        s2 \in GoodValidatorReplies}

GoodBundleOutcomes(user_confirmation, now, files, zips, by) ==
    {BundleDocumentation(user_confirmation,
                         [mkdir |-> "ok", split |-> s, fail_at |-> 0, zip |-> "ok"],
                         now, files, zips, by) : s \in SplitDicts}

RunMcpAgent ==
    /\ pc = "mcp_connection"
    /\ \E outcome \in {"response", "raise"} :
          /\ Step("mcp_connection", McpAgent(outcome))
          /\ cooperative' = (cooperative /\ outcome = "response")
    /\ UNCHANGED <<ui, handed>>
    /\ UNCHANGED fsVars

RunParserAgent ==
    /\ pc = "code_parser"
    /\ \E r \in ParserResults :
          /\ Step("code_parser", ParserAgent(r))
          /\ cooperative' = (cooperative /\ r \in GoodParserResults)
    /\ UNCHANGED <<ui, handed>>
    /\ UNCHANGED fsVars

RunContextAgent ==
    /\ pc = "context_enrichment"
    /\ \E outcome \in ContextOutcomes :
          /\ Step("context_enrichment", ContextAgent(ContextPreparation(outcome)))
          /\ cooperative' = (cooperative /\ outcome = GoodContext)
    /\ UNCHANGED <<ui, handed>>
    /\ UNCHANGED fsVars

\* The number the next drafter invocation of this run gets.
NextGen ==
    Count(calls, "doc_conversion") + Count(calls, "func_doc_conversion") + 1

RunReadmeDocAgent ==
    /\ pc = "readme_documentation"
    /\ \E p \in ParserResults, x \in ContextOutcomes, d \in DraftReplies :
          /\ Step("readme_documentation", DocAgent(DocConversion(NextGen, p, x, d)))
          /\ cooperative' = (cooperative /\ GoodDraftEnv(p, x, d))
    /\ UNCHANGED <<ui, handed>>
    /\ UNCHANGED fsVars

RunFunctionDocAgent ==
    /\ pc = "function_documentation"
    /\ \E p \in ParserResults, x \in ContextOutcomes, d \in DraftReplies :
          /\ Step("function_documentation", DocAgent(FuncDocConversion(NextGen, p, x, d)))
          /\ cooperative' = (cooperative /\ GoodDraftEnv(p, x, d))
    /\ UNCHANGED <<ui, handed>>
    /\ UNCHANGED fsVars

RunVerificationAgent ==
    /\ pc = "verification"
    /\ \E r \in VPOutcomes(state.documentation, NoFeedback, NextGen) :
          /\ Step("verification", VerificationAgent(r))
          /\ cooperative' =
                (cooperative /\ r \in GoodVPOutcomes(state.documentation, NoFeedback, NextGen))
    /\ UNCHANGED <<ui, handed>>
    /\ UNCHANGED fsVars

RunBundlerAgent ==
    /\ pc = "file_bundler"
    /\ \E r \in BundleOutcomes(FALSE, clock, disk, archives, "session_1") :
          /\ Step("file_bundler", BundlerAgent(r))
          /\ disk' = r.files
          /\ archives' = r.zips
          /\ bundles' = Append(bundles, r.record)
          /\ cooperative' =
                (cooperative /\ r \in GoodBundleOutcomes(FALSE, clock, disk, archives,
                                                        "session_1"))
    /\ handed' = DocToBundle(state)
    /\ UNCHANGED <<ui, clock>>

\* report_agent returns the state itself; an exception leaves the graph and
\* main() answers with the workflow error.
RunReportAgent ==
    /\ pc = "final_report"
    /\ LET r == ReportAgent(state)
       IN  /\ ui' = Append(ui, r.sent)
           /\ trace' = Append(trace, "final_report")
           /\ IF r.raised
              THEN /\ pc' = "aborted"
                   /\ UNCHANGED <<state, lastPatch>>
              ELSE /\ pc' = NextNode("final_report", state)
                   /\ state' = Merge(state, state)
                   /\ lastPatch' = state
    /\ UNCHANGED <<errors, calls, handed, input, output>>
    /\ UNCHANGED <<fsVars, cooperative>>

Init ==
    /\ pc = "idle"
    /\ state = NoState
    /\ trace = <<>>
    /\ lastPatch = [error |-> ""]
    /\ errors = <<>>
    /\ ui = <<>>
    /\ calls = <<>>
    /\ handed = NoText
    /\ clock = 0
    /\ disk = {}
    /\ archives = {}
    /\ bundles = <<>>
    /\ cooperative = TRUE
    /\ input = <<>>
    /\ output = "none"

Next ==
    \/ HandleMessage
    \/ RunMcpAgent
    \/ RunParserAgent
    \/ RunContextAgent
    \/ RunReadmeDocAgent
    \/ RunFunctionDocAgent
    \/ RunVerificationAgent
    \/ RunBundlerAgent
    \/ RunReportAgent

Spec == Init /\ [][Next]_vars

\* LangGraph runs the scheduled node to completion, and every external call
\* returns or raises.
FairSpec == Spec /\ WF_vars(Next)


-----------------------------------------------------------------------------
(* Specification of the branch alone: every short documentation kind       *)

MaxKindLen == 4
KindChars == {"a", "P", "i", "f", "U", "n", "c", "_"}

\* Sample kinds: "readme", "function_api", "FUNCTION".
SampleKinds ==
    {WReadme, WFunctionApi, <<"F","U","N","C","T","I","O","N">>}

\* The states whose branch is taken: a kind, or no doc_type key at all.
RouteInputs ==
    {[NoState EXCEPT !.doc_type = k] :
        k \in SampleKinds \cup StringsUpTo(KindChars, MaxKindLen)}
    \cup {[NoState EXCEPT !.has_doc_type = FALSE]}

InitRoute ==
    /\ pc = "route"
    /\ input \in RouteInputs
    /\ output = "pending"
    /\ state = NoState
    /\ trace = <<>>
    /\ lastPatch = [error |-> ""]
    /\ errors = <<>>
    /\ ui = <<>>
    /\ calls = <<>>
    /\ handed = NoText
    /\ clock = 0
    /\ disk = {}
    /\ archives = {}
    /\ bundles = <<>>
    /\ cooperative = TRUE

\* The conditional edge after context_enrichment is evaluated.
TakeBranch ==
    /\ pc = "route"
    /\ output = "pending"
    /\ output' = NextNode("context_enrichment", input)
    /\ UNCHANGED <<pc, state, trace, lastPatch, errors, ui, calls, handed, input>>
    /\ UNCHANGED <<fsVars, cooperative>>

NextRoute == TakeBranch

SpecRoute == InitRoute /\ [][NextRoute]_vars

-----------------------------------------------------------------------------
(* Specification of validate_and_process alone: every draft and feedback   *)

VPDrafts ==
    {[status |-> "success", documentation |-> [by |-> b, gen |-> 1], error |-> Absent] :
        b \in {"general", "function_api"}}
    \cup {DraftError("llm_error"), EmptyDraft}

InitVP ==
    /\ pc = "validate_and_process"
    /\ input \in [documentation_result : VPDrafts, user_feedback : Feedbacks]
    /\ output = VPReturn(EmptyVP, <<>>, Absent, NoValidation)
    /\ state = NoState
    /\ trace = <<>>
    /\ lastPatch = [error |-> ""]
    /\ errors = <<>>
    /\ ui = <<>>
    /\ calls = <<>>
    /\ handed = NoText
    /\ clock = 0
    /\ disk = {}
    /\ archives = {}
    /\ bundles = <<>>
    /\ cooperative = TRUE

\* One call of validate_and_process returns (or raises).
CallValidateAndProcess ==
    /\ pc = "validate_and_process"
    /\ \E r \in VPOutcomes(input.documentation_result, input.user_feedback, 2) :
          output' = r
    /\ pc' = "returned"
    /\ UNCHANGED <<state, trace, lastPatch, errors, ui, calls, handed, input>>
    /\ UNCHANGED <<fsVars, cooperative>>

NextVP == CallValidateAndProcess

SpecVP == InitVP /\ [][NextVP]_vars


-----------------------------------------------------------------------------
(* Specification of bundle_documentation alone: several calls in one       *)
(* process, on one file system and one clock                               *)

\* The chat sessions of the process; each runs the bundle stage once.
Sessions == {"session_1", "session_2"}

MaxClock == 3

\* The sessions whose call has returned.
Called == {bundles[i].by : i \in DOMAIN bundles}

InitBundle ==
    /\ pc = "bundler"
    /\ input = [user_confirmation |-> TRUE]
    /\ output = EmptyBundle
    /\ state = NoState
    /\ trace = <<>>
    /\ lastPatch = [error |-> ""]
    /\ errors = <<>>
    /\ ui = <<>>
    /\ calls = <<>>
    /\ handed = NoText
    /\ clock = 0
    /\ disk = {}
    /\ archives = {}
    /\ bundles = <<>>
    /\ cooperative = TRUE

\* Time passes between two calls.
Tick ==
    /\ clock < MaxClock
    /\ clock' = clock + 1
    /\ UNCHANGED <<pc, state, trace, lastPatch, errors, ui, calls, handed, input,
                   output, disk, archives, bundles, cooperative>>

\* One call of bundle_documentation runs from its first statement to its
\* return: its LLM call is synchronous, so the event loop runs nothing else
\* in between.
CallBundleDocumentation ==
    /\ \E session \in Sessions \ Called, user_confirmation \in BOOLEAN :
          \E r \in BundleOutcomes(user_confirmation, clock, disk, archives, session) :
              /\ input' = [user_confirmation |-> user_confirmation]
              /\ output' = r.value
              /\ disk' = r.files
              /\ archives' = r.zips
              /\ bundles' = Append(bundles, r.record)
    /\ UNCHANGED <<pc, state, trace, lastPatch, errors, ui, calls, handed, clock,
                   cooperative>>

NextBundle == Tick \/ CallBundleDocumentation

SpecBundle == InitBundle /\ [][NextBundle]_vars

-----------------------------------------------------------------------------
(* github_mcp_server.py: the changelog tool, for every repository          *)

possible_names ==
    <<"CHANGELOG.md", "Changelog.md", "changelog.md",
      "CHANGES.md", "Changes.md", "changes.md">>

\* What one GET of a path of the repository does: the file is there and its
\* text comes back, raise_for_status raises requests.HTTPError (the path
\* does not exist, access is refused), or requests.get itself raises
\* (connection error, timeout), which is no HTTPError.
FetchOutcomes == {"text", "http_error", "connection_error"}

\* get_file_content_github(repo, path) on a repository `repo`, given as the
\* outcome of the request for each path.
GetFileContentGithub(repo, path) ==
    IF repo[path] = "text"
    THEN [raised |-> "", value |-> [kind |-> "content", of |-> path]]
    ELSE [raised |-> repo[path], value |-> [kind |-> "none", of |-> path]]

\* The loop of get_changelog_content_github from candidate i on; `requested`
\* is history: the paths requested so far.
RECURSIVE ChangelogFrom(_, _, _)
ChangelogFrom(repo, i, requested) ==
    IF i > Len(possible_names)
    THEN [raised |-> "", value |-> [kind |-> "sentinel", of |-> "No changelog file found."],
          requested |-> requested]
    ELSE LET name == possible_names[i]
             content == GetFileContentGithub(repo, name)
         IN  IF content.raised = ""
             THEN [raised |-> "", value |-> content.value,
                   requested |-> Append(requested, name)]
             ELSE IF content.raised = "http_error"
             THEN ChangelogFrom(repo, i + 1, Append(requested, name))
             ELSE [raised |-> content.raised, value |-> content.value,
                   requested |-> Append(requested, name)]

\* get_changelog_content_github(repo)
GetChangelogContentGithub(repo) == ChangelogFrom(repo, 1, <<>>)

\* Every repository: each candidate path with one of the outcomes.
Repositories == [Range(possible_names) -> FetchOutcomes]

InitChangelog ==
    /\ pc = "get_changelog"
    /\ input \in Repositories
    /\ output = [raised |-> "", value |-> [kind |-> "none", of |-> ""], requested |-> <<>>]
    /\ state = NoState
    /\ trace = <<>>
    /\ lastPatch = [error |-> ""]
    /\ errors = <<>>
    /\ ui = <<>>
    /\ calls = <<>>
    /\ handed = NoText
    /\ clock = 0
    /\ disk = {}
    /\ archives = {}
    /\ bundles = <<>>
    /\ cooperative = TRUE

\* The tool is called once and returns or raises.
CallGetChangelog ==
    /\ pc = "get_changelog"
    /\ output' = GetChangelogContentGithub(input)
    /\ pc' = "returned"
    /\ UNCHANGED <<state, trace, lastPatch, errors, ui, calls, handed, input>>
    /\ UNCHANGED <<fsVars, cooperative>>

NextChangelog == CallGetChangelog

SpecChangelog == InitChangelog /\ [][NextChangelog]_vars

-----------------------------------------------------------------------------
(* Properties                                                              *)

Last(seq) == seq[Len(seq)]

IsPrefix(a, b) == Len(a) <= Len(b) /\ SubSeq(b, 1, Len(a)) = a

\* The spec's stage names are connect, extract_code, collect_context,
\* draft_general | draft_function_api, validate, bundle, report.
FullGeneral ==
    <<"mcp_connection", "code_parser", "context_enrichment", "readme_documentation",
      "verification", "file_bundler", "final_report">>

FullFunction ==
    <<"mcp_connection", "code_parser", "context_enrichment", "function_documentation",
      "verification", "file_bundler", "final_report">>

InOrder(t) == IsPrefix(t, FullGeneral) \/ IsPrefix(t, FullFunction)

\* The run has left the graph.
Stopped == pc \in {"END", "aborted"}

\* C1: every run that enters the graph starts at connect and executes the
\* stages in the order connect, extract_code, collect_context, one of the
\* two drafters, validate, bundle, report, each exactly once and never both
\* drafters: the executed stages are always a prefix of one of the two
\* orders, the stage about to run is the next one of that order, and a run
\* that has left the graph has executed a whole order.
C1_StageOrder ==
    /\ InOrder(trace)
    /\ pc \in GraphNodes => InOrder(Append(trace, pc))
    /\ Stopped => trace \in {FullGeneral, FullFunction}
    /\ pc \in {"idle", "rejected"} => trace = <<>>

C1_Witness == pc = "END" /\ trace = FullFunction /\ errors # <<>>

\* C2: whichever stage fails, every later stage still executes and the run
\* reaches END after report; no failure aborts the run: a run that entered
\* the graph and is no longer at one of its nodes is at END.
C2_RunReachesEnd ==
    pc \notin GraphNodes \cup {"idle", "rejected"} =>
        pc = "END" /\ trace \in {FullGeneral, FullFunction}

\* Two characters that are the same letter in either case, or equal.
SameLetter(a, b) ==
    \/ a = b
    \/ \E k \in DOMAIN Uppers : {a, b} = {Uppers[k], Lowers[k]}

\* s contains w, compared case-insensitively.
ContainsCI(s, w) ==
    \E i \in 1..(Len(s) - Len(w) + 1) :
        \A j \in 1..Len(w) : SameLetter(s[i + j - 1], w[j])

\* C3: for every documentation-kind string the branch after collect_context
\* goes to the function/API drafter if and only if the string contains,
\* case-insensitively, "api", "func" or "function"; every other string, and
\* a missing kind, goes to the general drafter.
C3_RouteIff ==
    output # "pending" =>
        /\ output \in {"function_documentation", "readme_documentation"}
        /\ output = "function_documentation" <=>
              /\ input.has_doc_type
              /\ \E w \in {WApi, WFunc, WFunction} : ContainsCI(input.doc_type, w)

C3_Witness ==
    /\ output = "function_documentation"
    /\ input.has_doc_type
    /\ input.doc_type = <<"a", "P", "i">>

NameChars ==
    Range(Lowers) \cup Range(Uppers) \cup Digits \cup {"_", "-"}

\* The message contains owner/repo: a "/" between two name characters.
HasRepoPattern(msg) ==
    \E i \in 2..(Len(msg) - 1) :
        msg[i] = "/" /\ msg[i - 1] \in NameChars /\ msg[i + 1] \in NameChars

\* C4: when the user message contains no owner/repo pattern, the handler
\* sends the usage hint and returns before the graph is entered: there is
\* no Pipeline Record, no stage has executed and no component was called;
\* and the graph is entered only with a message that has the pattern.
C4_RejectWithoutRepo ==
    /\ pc = "rejected" =>
          /\ ~HasRepoPattern(input)
          /\ state = NoState
          /\ trace = <<>>
          /\ calls = <<>>
          /\ ui = <<Sent("usage_hint", "username/repository", FALSE)>>
    /\ pc \notin {"idle", "rejected"} => HasRepoPattern(input)

C4_Witness ==
    /\ pc = "rejected"
    /\ input = <<"d","o","c","s"," ","f","o","r"," ","a","/">>

\* C5: for every first Validation Result with is_valid=false, the fallback
\* result included, one call of validate_and_process invokes
\* process_user_feedback exactly once before returning.
C5_FeedbackExactlyOnce ==
    (/\ pc = "returned"
     /\ output.first_validation.kind = "dict"
     /\ output.first_validation.is_valid = "false")
    => Count(output.calls, "process_user_feedback") = 1

\* C6: validate_and_process returns the original draft tagged "validated"
\* with ready_for_bundling exactly when the first validation is valid and no
\* feedback was supplied; in every other case it runs process_user_feedback
\* with the feedback text, or with the JSON-encoded suggestions when there
\* is no feedback, and returns its result tagged "updated".
C6_ValidatedOrUpdated ==
    (/\ pc = "returned"
     /\ output.first_validation.kind = "dict"
     /\ output.first_validation.is_valid \in {"true", "false"})
    => IF /\ output.first_validation.is_valid = "true"
          /\ input.user_feedback \in {NoFeedback, ""}
       THEN /\ output.value.status = "validated"
            /\ output.value.documentation = input.documentation_result.documentation
            /\ output.value.ready_for_bundling = "true"
            /\ Count(output.calls, "process_user_feedback") = 0
       ELSE /\ output.value.status = "updated"
            /\ Count(output.calls, "process_user_feedback") = 1
            /\ output.feedback_arg =
                  IF input.user_feedback \in {NoFeedback, ""}
                  THEN "json(suggestions)"
                  ELSE input.user_feedback

\* C7: if any stage of a run recorded an error text, the final report
\* echoes the first error text recorded in that run.
C7_ReportEchoesFirstError ==
    (Stopped /\ errors # <<>>) =>
        /\ Last(ui).kind = "process_failed"
        /\ Last(ui).text = errors[1]

\* C8: the final report renders its validation and bundle sections in every
\* run, also when those results are empty and when an error was recorded.
C8_SectionsRendered ==
    Stopped => Last(ui).validation_section /\ Last(ui).bundle_section

\* The stage that ran last got a failure back from its component.
ComponentFailed ==
    /\ trace # <<>>
    /\ \/ Last(trace) = "code_parser" /\ state.code_analysis \in ParserErrorObjects
       \/ /\ Last(trace) \in {"readme_documentation", "function_documentation"}
          /\ state.documentation.status = "error"
       \/ Last(trace) = "verification" /\ state.validation_result.status = "error"
       \/ Last(trace) = "file_bundler" /\ state.bundle_result.status = "error"

\* C9: every failure of a stage's component becomes a non-empty error field
\* of the Pipeline Record: after the patch of a stage whose extractor
\* returned an error object, or whose drafter, validate_and_process or
\* bundler returned status "error", is merged, the error field is non-empty.
C9_FailureSetsError == ComponentFailed => state.error # ""

\* The field each stage writes its output to.
OutputField ==
    [mcp_connection         |-> "mcp_response",
     code_parser            |-> "code_analysis",
     context_enrichment     |-> "context_data",
     readme_documentation   |-> "documentation",
     function_documentation |-> "documentation",
     verification           |-> "validation_result",
     file_bundler           |-> "bundle_result"]

\* The unpopulated value of each output field.
EmptyValue ==
    [mcp_response      |-> Empty,
     code_analysis     |-> Empty,
     context_data      |-> "",
     documentation     |-> EmptyDraft,
     validation_result |-> EmptyVP,
     bundle_result     |-> EmptyBundle]

C10_Transition ==
    /\ (pc \in GraphNodes \ {"final_report"} /\ trace' # trace) =>
          LET f == OutputField[pc]
          IN  /\ DOMAIN lastPatch' = {"error", f}
              /\ ~(lastPatch'.error # "" /\ lastPatch'[f] # EmptyValue[f])
              /\ lastPatch'[f] = EmptyValue[f] => lastPatch'.error # ""
              /\ \A g \in DOMAIN state \ {"error", f} : state'[g] = state[g]
    /\ (pc = "final_report" /\ trace' # trace) =>
          \A g \in DOMAIN state \ {"messages"} : state'[g] = state[g]

\* C10: at every stage transition the merged patch never has both a
\* non-empty error text and a populated output field of that stage; a stage
\* that takes its failure path sets the error, leaves its own output empty
\* and leaves every other stage's output field at its prior value.
C10_PatchExclusive == [][C10_Transition]_vars

C10_Witness ==
    /\ trace # <<>>
    /\ Last(trace) = "verification"
    /\ state.error # ""
    /\ state.validation_result = EmptyVP
    /\ state.documentation.status = "success"
    /\ state.bundle_result = EmptyBundle

\* C11: in one run the Context Collector (context_preparation) and the
\* Code Structure Extractor (code_parser_work) are each invoked at most
\* once between the start of the run and END, whichever drafter runs and
\* whether or not validation regenerates the documentation.
C11_ProducedOnce ==
    /\ Count(calls, "code_parser_work") <= 1
    /\ Count(calls, "context_preparation") <= 1

\* The number of entries of a split result.
EntryCount(separated_docs) ==
    Len(separated_docs.functions) + Len(separated_docs.classes)

\* The archive at a path, if there is one.
ArchiveAt(zips, path) == {a \in zips : a.path = path}

\* C12: a Bundler call with confirmation=false that got a split result
\* returns a Bundle Result whose generated_files count equals the number of
\* split entries, and its archive exists and contains exactly those files,
\* one distinct non-empty file per split entry, also when two entries carry
\* the same file_name or an entry has empty content.
C12_RoundTrip ==
    (/\ pc = "bundler"
     /\ bundles # <<>>
     /\ ~Last(bundles).user_confirmation
     /\ Last(bundles).result.status = "bundled")
    => LET b == Last(bundles)
           n == EntryCount(b.separated_docs)
       IN  /\ Len(b.result.generated_files) = n
           /\ \E a \in ArchiveAt(archives, b.result.zip_file) :
                 /\ {f.path : f \in a.members} =
                        {b.result.generated_files[i] : i \in 1..n}
                 /\ Cardinality(a.members) = n
                 /\ \A f \in a.members : f.content # ""

\* A bundle_documentation call has just returned.
JustBundled == bundles' # bundles

C13_Transition ==
    JustBundled =>
        LET b == Last(bundles')
        IN  b.result.status # "error" =>
              /\ b.result.base_directory = b.directory
              /\ b.directory = PathOf(Timestamp(b.time), "", "", "")
              /\ IF b.user_confirmation
                 THEN /\ b.result.status = "generated"
                      /\ b.result.zip_file = NoPath
                      /\ archives' = archives
                 ELSE /\ b.result.status = "bundled"
                      /\ b.result.zip_file = [b.directory EXCEPT !.ext = ".zip"]
                      /\ \E a \in ArchiveAt(archives', b.result.zip_file) :
                            /\ a.by = b.by
                            /\ a.members = Tree(disk', b.directory)

\* C13: a successful Bundler call with confirmation=false archives the
\* output directory into <directory>.zip and returns status "bundled" with
\* that archive path; a successful call with confirmation=true creates no
\* archive and returns status "generated" without an archive path.
C13_ZipOnlyWithoutConfirmation == [][C13_Transition]_vars

C13_Witness ==
    /\ pc = "bundler"
    /\ \E i, j \in DOMAIN bundles :
          /\ bundles[i].result.status = "generated"
          /\ bundles[i].user_confirmation
          /\ bundles[j].result.status = "bundled"
          /\ ~bundles[j].user_confirmation
          /\ ArchiveAt(archives, bundles[j].result.zip_file) # {}

C14_Transition ==
    JustBundled =>
        LET b == Last(bundles')
        IN  b.write_failed =>
              /\ b.result.status = "error"
              /\ ~b.result.has_generated_files
              /\ b.result.generated_files = <<>>
              /\ b.result.zip_file = NoPath
              /\ archives' = archives

\* C14: if writing any one split entry fails during a Bundler call, the
\* whole call aborts: the Bundle Result has status "error", no
\* generated_files list and no archive path, and no archive is created,
\* even when earlier entries were written successfully.
C14_WriteFailureAborts == [][C14_Transition]_vars

C14_Witness ==
    /\ pc = "bundler"
    /\ \E i \in DOMAIN bundles :
          /\ bundles[i].write_failed
          /\ bundles[i].wrote >= 1
          /\ ~bundles[i].user_confirmation
          /\ bundles[i].result.status = "error"
          /\ \E f \in disk : f.by = bundles[i].by

\* C17: any two Bundler calls whose clock readings differ by at least one
\* second return Bundle Results with distinct output directories.
C17_DistinctDirectories ==
    pc = "bundler" =>
        \A i, j \in DOMAIN bundles :
            (/\ bundles[i].result.status # "error"
             /\ bundles[j].result.status # "error"
             /\ bundles[j].time - bundles[i].time >= TicksPerSecond)
            => /\ bundles[i].result.base_directory # bundles[j].result.base_directory
               /\ bundles[i].directory # bundles[j].directory

C17_Witness ==
    /\ pc = "bundler"
    /\ \E i, j \in DOMAIN bundles :
          /\ bundles[i].result.status = "bundled"
          /\ bundles[j].result.status = "bundled"
          /\ bundles[j].time - bundles[i].time = TicksPerSecond
          /\ bundles[i].result.base_directory # bundles[j].result.base_directory

\* C18: an output directory tree is written by exactly one Bundler
\* invocation: across any interleaving of runs in one process no two
\* Bundler calls write files into the same timestamp-derived directory, and
\* no archive contains files generated by another call.
C18_DirectoryOwnedByOneCall ==
    pc = "bundler" =>
        /\ \A i, j \in DOMAIN bundles :
              (i # j /\ bundles[i].wrote >= 1 /\ bundles[j].wrote >= 1)
              => bundles[i].directory # bundles[j].directory
        /\ \A a \in archives : \A f \in a.members : f.by = a.by

\* The candidates whose request returns the file's text.
Reachable(repo) == {i \in DOMAIN possible_names : repo[possible_names[i]] = "text"}

\* C15: for every repository in which at least one candidate changelog
\* filename is reachable, get_changelog tries the candidates in the order
\* CHANGELOG.md, Changelog.md, changelog.md, CHANGES.md, Changes.md,
\* changes.md, stops at the first one that succeeds, requests no later
\* candidate, and returns that file's content rather than the sentinel.
C15_FirstReachableWins ==
    (pc = "returned" /\ Reachable(input) # {}) =>
        LET first == CHOOSE i \in Reachable(input) : \A k \in Reachable(input) : i <= k
        IN  /\ output.requested = SubSeq(possible_names, 1, first)
            /\ output.raised = ""
            /\ output.value = [kind |-> "content", of |-> possible_names[first]]

IndexOf(seq, x) ==
    CHOOSE i \in DOMAIN seq : seq[i] = x /\ \A k \in 1..(i - 1) : seq[k] # x

\* C19: every call of process_user_feedback performs its steps in the order
\* (1) ask the LLM for improvements, (2) regenerate the documentation
\* through the Drafter, (3) re-validate the new draft, (4) return; the
\* regeneration happens in every call, whatever the outcome of step 1.
C19_FeedbackStepOrder ==
    (pc = "returned" /\ Count(output.calls, "process_user_feedback") >= 1) =>
        LET i == IndexOf(output.calls, "process_user_feedback")
        IN  /\ Count(output.calls, "process_user_feedback") = 1
            /\ Len(output.calls) >= i + 3
            /\ output.calls[i + 1] = "llm_improve"
            /\ output.calls[i + 2] = "doc_conversion"
            /\ Count(output.calls, "doc_conversion") = 1
            /\ Last(output.calls) = "validate_documentation"
            /\ Count(output.calls, "validate_documentation") = 2

\* C20: when the validator's own LLM call or JSON parsing fails,
\* validate_documentation returns normally with is_valid=false,
\* validation_score=0, issues=["Failed to perform validation"] and the error
\* message; the failure is reported as "invalid" and not through a distinct
\* error channel, also at the level of validate_and_process, whose result
\* then is that of the invalid path and no error.
C20_ValidatorFailureIsInvalid ==
    LET failed == ValidateDocumentation(ValidatorRaise)
    IN  /\ ~failed.raised
        /\ failed.value.is_valid = "false"
        /\ failed.value.validation_score = "0"
        /\ failed.value.issues = "failed_to_perform_validation"
        /\ failed.value.error # Absent
        /\ (pc = "returned" /\ output.first_validation = failed.value) =>
              /\ ~output.raised
              /\ output.value.status = "updated"
              /\ output.value.error = Absent

\* C21: the Code Structure Extractor returns either a list of Code Element
\* records or a structured error object: a reply that is not valid JSON
\* yields a parse-failure error, and a reply that is valid JSON but not a
\* list yields a shape-failure error, never the non-list value itself.
\* Whenever the extract stage stored what the extractor returned, the stored
\* value is the list or one of the error objects.
C21_ListOrErrorObject ==
    (trace # <<>> /\ Last(trace) = "code_parser" /\ state.error = "") =>
        state.code_analysis \in {"elements"} \cup ParserErrorObjects

\* The bundle stage has run.
BundleStageRan == \E i \in DOMAIN trace : trace[i] = "file_bundler"

\* C22: the bundle stage bundles the Validator's output: when validation
\* returned a revised documentation (status "updated"), the text handed to
\* the Bundler is the revised documentation and not the original draft; the
\* original draft's documentation is used only when the validation result
\* carries no documentation.
C22_BundlesValidatorOutput ==
    BundleStageRan =>
        IF state.validation_result.status = "updated"
        THEN /\ handed = state.validation_result.documentation
             /\ handed # state.documentation.documentation
             /\ handed.gen > state.documentation.documentation.gen
        ELSE IF state.validation_result.status = "validated"
        THEN handed = state.validation_result.documentation
        ELSE /\ state.validation_result.documentation = NoText
             /\ handed = IF state.documentation.status = "success"
                         THEN state.documentation.documentation
                         ELSE NoText

C22_Witness ==
    /\ BundleStageRan
    /\ state.validation_result.status = "updated"
    /\ state.documentation.status = "success"
    /\ state.documentation.documentation.gen = 1
    /\ handed.gen = 2

\* The split step of a call failed: the LLM call raised or its reply was
\* not valid JSON.
SplitFailed(b) ==
    b.separated_docs.kind = "raise" \/ b.separated_docs.error # Absent

\* C23: when the split step fails, separate_documentation returns an empty
\* split {functions: [], classes: []} with an embedded error instead of
\* raising, and the Bundler call continues to a Bundle Result with zero
\* generated files and a status of generated or bundled, not error; the
\* only error such a call can still end in is that of the archive step.
C23_SplitFailureContinues ==
    pc = "bundler" =>
        \A i \in DOMAIN bundles :
            LET b == bundles[i]
            IN  SplitFailed(b) =>
                  /\ b.separated_docs.kind = "dict"
                  /\ b.separated_docs.error # Absent
                  /\ b.separated_docs.functions = <<>>
                  /\ b.separated_docs.classes = <<>>
                  /\ b.wrote = 0
                  /\ ~b.write_failed
                  /\ IF b.result.status = "error"
                     THEN /\ ~b.user_confirmation
                          /\ b.result.error = "Failed to create zip bundle"
                     ELSE /\ b.result.has_generated_files
                          /\ b.result.generated_files = <<>>
                          /\ b.result.status =
                                IF b.user_confirmation THEN "generated" ELSE "bundled"

C23_Witness ==
    /\ pc = "bundler"
    /\ \E i, j \in DOMAIN bundles :
          /\ SplitFailed(bundles[i])
          /\ bundles[i].result.status = "bundled"
          /\ bundles[i].result.generated_files = <<>>
          /\ SplitFailed(bundles[j])
          /\ bundles[j].result.status = "generated"


\* C24: in a run routed to the function/API drafter, every Draft
\* Documentation of the run comes from the function/API drafter: the general
\* drafter is never called, and the documentation handed to the Bundler,
\* regenerated or not, was not written by the general drafter.
FunctionRouted == \E i \in DOMAIN trace : trace[i] = "function_documentation"

C24_FunctionDrafterOnly ==
    FunctionRouted =>
        /\ Count(calls, "doc_conversion") = 0
        /\ state.documentation.documentation.by # "general"
        /\ state.validation_result.documentation.by # "general"
        /\ BundleStageRan => handed.by # "general"

\* C25: the final report sends the COMPLETE summary only in runs where the
\* drafter returned status success, the validation stage returned a
\* Validation Result with status validated or updated, and the Bundler
\* returned status bundled.
SummarySent == \E i \in DOMAIN ui : ui[i].kind = "summary" /\ ui[i].text = "COMPLETE"

C25_CompleteOnlyAfterSuccess ==
    SummarySent =>
        /\ state.documentation.status = "success"
        /\ state.validation_result.status \in {"validated", "updated"}
        /\ state.bundle_result.status = "bundled"

=============================================================================
